---- MODULE Spec2Model ----
(***************************************************************************)
(* Task manager API: one table of tasks behind a FastAPI router.           *)
(*                                                                         *)
(* The model follows the request path of the source:                       *)
(*   schemas.py  (TaskBase/TaskCreate/TaskUpdate/TaskResponse validation)  *)
(*   crud.py     (data access: one unit of work per call)                  *)
(*   routes.py   (HTTP mapping: status codes and bodies)                   *)
(*   models.py   (the tasks table: columns, NOT NULL, defaults)            *)
(*                                                                         *)
(* A string is represented by its whitespace structure, which is all the   *)
(* validation code looks at: [lead, core, trail] = number of leading       *)
(* whitespace characters, length of the part from the first to the last    *)
(* non-whitespace character, number of trailing whitespace characters.     *)
(* A string without any non-whitespace character has core = 0 and its      *)
(* whole length in lead.  A nullable value is <<>> (None / NULL) or <<v>>.  *)
(* Timestamps are integers (clock readings).                               *)
(***************************************************************************)
EXTENDS Integers, Sequences, FiniteSets, TLC

VARIABLES
    tasks,      \* the rows of table "tasks" (models.Task), a set of records
    db_now,     \* reading of the store's clock, func.now() (models.py)
    app_now,    \* reading of the application's clock, datetime.utcnow() (crud.py)
    resp,       \* the last request and its response, as the client sees it
    service,    \* the server process: is config.json there, did it start,
                \* which store it is bound to (main.py, database.py)
    inflight    \* the requests being served step by step, each with the
                \* session get_db gave it (database.py)

vars == <<tasks, db_now, app_now, resp, service, inflight>>

-----------------------------------------------------------------------------
(* Bounds of the model *)

MaxId == 2

MaxTime == 2

-----------------------------------------------------------------------------
(* Program constants *)

TitleMinLength == 3

TitleMaxLength == 200

DescriptionMaxLength == 1000

LimitDefault == 20

LimitMax == 100

HTTP_200_OK == 200

HTTP_201_CREATED == 201

HTTP_404_NOT_FOUND == 404

HTTP_422_UNPROCESSABLE == 422

HTTP_500_INTERNAL_SERVER_ERROR == 500

PriorityEnum == {"low", "medium", "high", "urgent"}

StatusEnum == {"todo", "in_progress", "completed", "cancelled"}

-----------------------------------------------------------------------------
(* Nullable values and strings *)

None == <<>>

Some(v) == <<v>>

Str(l, c, t) == [lead |-> l, core |-> c, trail |-> t]

StrLen(s) == s.lead + s.core + s.trail

\* str.strip(): drops leading and trailing whitespace
strip(s) == [lead |-> 0, core |-> s.core, trail |-> 0]

\* `not v.strip()`: nothing is left after stripping
IsBlank(s) == StrLen(strip(s)) = 0

Min(a, b) == IF a <= b THEN a ELSE b

Max(a, b) == IF a >= b THEN a ELSE b

SetMax(S) == CHOOSE m \in S : \A x \in S : x <= m

-----------------------------------------------------------------------------
(* schemas.py: validation of request payloads.  A raw payload is a record  *)
(* holding the JSON keys that were sent; a key sent as null holds None.    *)

Supplied(raw, f) == f \in DOMAIN raw

\* The fields TaskBase and TaskUpdate declare
Fields == {"title", "description", "priority", "status", "due_date"}

\* Field(..., min_length=3, max_length=200): checked on the string as sent
title_length_ok(v) == StrLen(v) >= TitleMinLength /\ StrLen(v) <= TitleMaxLength

\* Field(None, max_length=1000)
description_length_ok(v) == StrLen(v) <= DescriptionMaxLength

\* TaskBase.validate_title: raises on an empty or whitespace-only title
validate_title_raises(v) == StrLen(v) = 0 \/ IsBlank(v)

\* TaskBase.validate_title: the value it returns
validate_title(v) == strip(v)

\* TaskBase.validate_description: strips a non-empty description
validate_description(v) == IF StrLen(v) > 0 THEN strip(v) ELSE v

\* TaskBase.title: required str, length checked first, then validate_title
TaskBase_title_ok(raw) ==
    /\ Supplied(raw, "title")
    /\ raw.title # None
    /\ title_length_ok(raw.title[1])
    /\ ~validate_title_raises(raw.title[1])

\* TaskBase.description: Optional[str]
TaskBase_description_ok(raw) ==
    (Supplied(raw, "description") /\ raw.description # None)
        => description_length_ok(raw.description[1])

\* TaskBase.priority / status: enum members, not Optional
TaskBase_priority_ok(raw) ==
    Supplied(raw, "priority")
        => (raw.priority # None /\ raw.priority[1] \in PriorityEnum)

TaskBase_status_ok(raw) ==
    Supplied(raw, "status")
        => (raw.status # None /\ raw.status[1] \in StatusEnum)

\* TaskCreate(**body) succeeds (otherwise FastAPI answers 422)
TaskCreate_ok(raw) ==
    /\ TaskBase_title_ok(raw)
    /\ TaskBase_description_ok(raw)
    /\ TaskBase_priority_ok(raw)
    /\ TaskBase_status_ok(raw)

\* The validated TaskCreate object: defaults filled in, validators applied
TaskCreate(raw) ==
    [ title       |-> validate_title(raw.title[1]),
      description |-> IF Supplied(raw, "description") /\ raw.description # None
                      THEN Some(validate_description(raw.description[1]))
                      ELSE None,
      priority    |-> IF Supplied(raw, "priority") THEN raw.priority[1] ELSE "medium",
      status      |-> IF Supplied(raw, "status") THEN raw.status[1] ELSE "todo",
      due_date    |-> IF Supplied(raw, "due_date") THEN raw.due_date ELSE None ]

\* A TaskUpdate whose priority and status are plain strings
TaskUpdate_ok_without_enums(raw) ==
    /\ (Supplied(raw, "title") /\ raw.title # None)
            => title_length_ok(raw.title[1])
    /\ (Supplied(raw, "description") /\ raw.description # None)
            => description_length_ok(raw.description[1])

\* TaskUpdate: every field Optional, no validator, constraints on non-null values
TaskUpdate_ok(raw) ==
    /\ (Supplied(raw, "title") /\ raw.title # None)
            => title_length_ok(raw.title[1])
    /\ (Supplied(raw, "description") /\ raw.description # None)
            => description_length_ok(raw.description[1])
    /\ (Supplied(raw, "priority") /\ raw.priority # None)
            => raw.priority[1] \in PriorityEnum
    /\ (Supplied(raw, "status") /\ raw.status # None)
            => raw.status[1] \in StatusEnum

\* A TaskUpdate configured with extra="allow": the dump keeps every key sent
model_dump_extra_allow(raw) == raw

\* task_update.model_dump(exclude_unset=True): the declared fields that were
\* sent, nulls included.  TaskUpdate does not set `extra`, so pydantic ignores
\* the keys it does not declare (id, created_at, updated_at, ...).
model_dump_exclude_unset(raw) == [f \in DOMAIN raw \cap Fields |-> raw[f]]

\* TaskResponse (a TaskBase): the response model re-validates the row it is given
TaskResponse_ok(row) ==
    /\ title_length_ok(row.title)
    /\ ~validate_title_raises(row.title)
    /\ row.description # None => description_length_ok(row.description[1])
    /\ row.priority \in PriorityEnum
    /\ row.status \in StatusEnum

\* The serialised TaskResponse: validators applied to the row's values
TaskResponse(row) ==
    [row EXCEPT !.title = validate_title(row.title),
                !.description = IF row.description # None
                                THEN Some(validate_description(row.description[1]))
                                ELSE None]

-----------------------------------------------------------------------------
(* models.py: the tasks table *)

Ids(rows) == {r.id : r \in rows}

\* An id allocated as the number of rows plus one
NewId_count(rows) == Cardinality(rows) + 1

\* Task.id: Integer primary key filled in by the store.  On the default store
\* (SQLite, database.py) the column is the rowid: one more than the largest
\* id in the table, 1 for an empty table.
NewId(rows) == IF rows = {} THEN 1 ELSE SetMax(Ids(rows)) + 1

\* primary_key on id, nullable=False on title, priority, status, created_at
\* and updated_at: the store refuses the row (IntegrityError at flush/commit)
\* when one of them is NULL
not_null_ok(attrs) ==
    /\ attrs.id # None
    /\ attrs.title # None
    /\ attrs.priority # None
    /\ attrs.status # None
    /\ attrs.created_at # None
    /\ attrs.updated_at # None

\* The attribute values of a loaded row, each as a nullable value (what
\* setattr works on)
Attrs(row) ==
    [ id          |-> Some(row.id),
      title       |-> Some(row.title),
      description |-> row.description,
      priority    |-> Some(row.priority),
      status      |-> Some(row.status),
      created_at  |-> Some(row.created_at),
      updated_at  |-> Some(row.updated_at),
      due_date    |-> row.due_date ]

-----------------------------------------------------------------------------
(* crud.py: data access *)

\* A lookup without the filter on the id: the first row of the table
get_task_by_id_unfiltered(rows, task_id) ==
    IF rows # {}
    THEN Some(CHOOSE r \in rows : \A q \in rows : r.id <= q.id)
    ELSE None

\* db.query(Task).filter(Task.id == task_id).first()
get_task_by_id(rows, task_id) ==
    IF \E r \in rows : r.id = task_id
    THEN Some(CHOOSE r \in rows : r.id = task_id)
    ELSE None

\* create_task: Task(...), db.add, db.commit, db.refresh.  created_at and
\* updated_at are not given: both take server_default=func.now() in the
\* one INSERT.
create_task(rows, task, store_clock) ==
    [ id          |-> NewId(rows),
      title       |-> task.title,
      description |-> task.description,
      priority    |-> task.priority,
      status      |-> task.status,
      created_at  |-> store_clock,
      updated_at  |-> store_clock,
      due_date    |-> task.due_date ]

\* Mutant of set_attrs: the payload dumped without exclude_unset, so that a
\* key that was not sent overwrites the attribute with None
set_attrs_dump_all(attrs, update_data) ==
    [f \in DOMAIN attrs |->
        IF f \in DOMAIN update_data THEN update_data[f]
        ELSE IF f \in Fields THEN None ELSE attrs[f]]

\* update_task, lines 176-180: setattr(db_task, field, value) for the dumped keys
set_attrs(attrs, update_data) ==
    [f \in DOMAIN attrs |->
        IF f \in DOMAIN update_data THEN update_data[f] ELSE attrs[f]]

\* update_task, line 183: db_task.updated_at = datetime.utcnow()
touch_updated_at(row, utcnow) == [row EXCEPT !.updated_at = utcnow]

\* update_task, lines 176-186: the row as committed (attrs has no NULL in a
\* NOT NULL column)
update_task(row, attrs, utcnow) ==
    touch_updated_at(
        [row EXCEPT !.id = attrs.id[1],
                    !.title = attrs.title[1],
                    !.description = attrs.description,
                    !.created_at = attrs.created_at[1],
                    !.priority = attrs.priority[1],
                    !.status = attrs.status[1],
                    !.due_date = attrs.due_date],
        utcnow)

\* delete_task without the db.delete()/db.commit(): the row stays
delete_task_keep(rows, row) == rows

\* delete_task: db.delete(db_task); db.commit()
delete_task(rows, row) == rows \ {row}

\* `if status: query = query.filter(Task.status == status)`
filter_status(rows, status) ==
    IF status # None THEN {r \in rows : r.status = status[1]} ELSE rows

\* `if priority: query = query.filter(Task.priority == priority)`
filter_priority(rows, priority) ==
    IF priority # None THEN {r \in rows : r.priority = priority[1]} ELSE rows

\* All the orders in which the rows of a set can be listed
Perms(S) ==
    {o \in [1..Cardinality(S) -> S] :
        \A i, j \in 1..Cardinality(S) : i # j => o[i] # o[j]}

\* The ascending order in the place of the descending one
order_by_created_at_asc(S) ==
    {o \in Perms(S) :
        \A i \in 1..(Cardinality(S) - 1) : o[i].created_at <= o[i + 1].created_at}

\* query.order_by(Task.created_at.desc()): any order with created_at not
\* increasing; rows with the same created_at come in an order the store chooses
RECURSIVE order_by_created_at_desc(_)
order_by_created_at_desc(S) ==
    IF S = {} THEN {<<>>}
    ELSE UNION { {<<r>> \o o : o \in order_by_created_at_desc(S \ {r})} :
                 r \in {x \in S : \A y \in S : x.created_at >= y.created_at} }

\* The offset taken from the page number, (page - 1) * limit, in the place of
\* skip
offset_limit_of_page(o, skip, limit) ==
    [i \in 1..Max(0, Min(limit, Len(o) - (skip \div limit) * limit)) |->
        o[(skip \div limit) * limit + i]]

\* query.offset(skip).limit(limit).all()
offset_limit(o, skip, limit) ==
    [i \in 1..Max(0, Min(limit, Len(o) - skip)) |-> o[skip + i]]

\* get_all_tasks: the results the query may return
get_all_tasks(rows, skip, limit, status, priority) ==
    {offset_limit(o, skip, limit) :
        o \in order_by_created_at_desc(
                filter_priority(filter_status(rows, status), priority))}

\* A count that leaves the filters out
get_tasks_count_unfiltered(rows, status, priority) == Cardinality(rows)

\* A count that applies the status filter only
get_tasks_count_status_only(rows, status, priority) ==
    Cardinality(filter_status(rows, status))

\* get_tasks_count: SELECT count(tasks.id) with the same filters
get_tasks_count(rows, status, priority) ==
    Cardinality(filter_priority(filter_status(rows, status), priority))

\* get_tasks_by_status / get_tasks_by_priority
get_tasks_by_status(rows, status, skip, limit) ==
    get_all_tasks(rows, skip, limit, Some(status), None)

get_tasks_by_priority(rows, priority, skip, limit) ==
    get_all_tasks(rows, skip, limit, None, Some(priority))

\* The comparison `<=` in the place of `<`
sql_le(a, b) ==
    IF a = None \/ b = None THEN "unknown"
    ELSE IF a[1] <= b[1] THEN "true" ELSE "false"

\* SQL comparison with a NULL operand is unknown; WHERE keeps the rows for
\* which the condition is true
sql_lt(a, b) ==
    IF a = None \/ b = None THEN "unknown"
    ELSE IF a[1] < b[1] THEN "true" ELSE "false"

sql_ne(a, b) ==
    IF a = None \/ b = None THEN "unknown"
    ELSE IF a[1] # b[1] THEN "true" ELSE "false"

sql_and(x, y) ==
    IF x = "false" \/ y = "false" THEN "false"
    ELSE IF x = "true" /\ y = "true" THEN "true" ELSE "unknown"

\* get_overdue_tasks: filter(due_date < now, status != COMPLETED, status != CANCELLED)
overdue_where(row, utcnow) ==
    sql_and(sql_lt(row.due_date, Some(utcnow)),
            sql_and(sql_ne(Some(row.status), Some("completed")),
                    sql_ne(Some(row.status), Some("cancelled"))))

get_overdue_tasks(rows, utcnow) ==
    {r \in rows : overdue_where(r, utcnow) = "true"}

\* A mark_task_as_completed that sets another status
mark_task_as_cancelled_update == [status |-> Some("cancelled")]

\* mark_task_as_completed: TaskUpdate(status=StatusEnum.COMPLETED)
mark_task_as_completed_update == [status |-> Some("completed")]

-----------------------------------------------------------------------------
(* routes.py: one action per endpoint.  resp records the request (op, id,   *)
(* args), what the data-access call did (crud: "ok" it returned a task, a   *)
(* list or True; "none" it returned None or False; "raised" it rolled back  *)
(* and raised; "skipped" it was not called; rows: the rows it returned) and *)
(* the response (code, body and the list metadata).                         *)

Response(op, id, args, crud, rows, code, body, total, page, page_size) ==
    [ op |-> op, id |-> id, args |-> args, crud |-> crud, rows |-> rows,
      code |-> code, body |-> body, total |-> total, page |-> page,
      page_size |-> page_size ]

\* A response without a task in it
Plain(op, id, args, crud, code) ==
    Response(op, id, args, crud, <<>>, code, <<>>, 0, 0, 0)

NoArgs == <<>>

\* main.http_exception_handler: the JSON body of every HTTPException
http_exception_handler(status_code, detail) ==
    [error |-> detail, status_code |-> status_code]

\* main.general_exception_handler: the JSON body of any other exception,
\* exc being str(exc)
general_exception_handler(exc) ==
    [error |-> "Une erreur interne s'est produite", detail |-> exc]

\* detail=f"Tache avec l'ID {task_id} non trouvee"
not_found_detail(task_id) == <<"Tache avec l'ID", task_id, "non trouvee">>

\* raise HTTPException(status_code=404, detail=...) after the data-access
\* call returned None or False
not_found(op, task_id, args) ==
    Response(op, task_id, args, "none", <<>>, HTTP_404_NOT_FOUND,
             <<http_exception_handler(HTTP_404_NOT_FOUND,
                                      not_found_detail(task_id))>>, 0, 0, 0)

\* An exception that no route catches, answered by general_exception_handler
internal_error(op, id, args, crud, rows, exc) ==
    Response(op, id, args, crud, rows, HTTP_500_INTERNAL_SERVER_ERROR,
             <<general_exception_handler(exc)>>, 0, 0, 0)

\* str() of the IntegrityError the store raises for a NULL in a NOT NULL column
IntegrityError(attrs) ==
    IF attrs.title = None
    THEN "IntegrityError: NOT NULL constraint failed: tasks.title"
    ELSE IF attrs.priority = None
    THEN "IntegrityError: NOT NULL constraint failed: tasks.priority"
    ELSE "IntegrityError: NOT NULL constraint failed: tasks.status"

\* str() of the error raised when a returned row fails the response model:
\* pydantic's ValidationError for TaskList(...) built in get_tasks, FastAPI's
\* ResponseValidationError for the response_model of the other routes
ResponseError(op) ==
    IF op = "list"
    THEN "ValidationError: 1 validation error for TaskList"
    ELSE "ResponseValidationError: 1 validation errors"

\* response_model=TaskResponse: FastAPI validates the returned row; a row the
\* model rejects is answered 500 (main.general_exception_handler)
task_response(op, id, args, row, success_code) ==
    IF TaskResponse_ok(row)
    THEN Response(op, id, args, "ok", <<row>>, success_code,
                  <<TaskResponse(row)>>, 0, 0, 0)
    ELSE internal_error(op, id, args, "ok", <<row>>, ResponseError(op))

\* response_model=List[TaskResponse] / TaskList: every returned row is validated
list_response(op, args, rows_seq, total, page, page_size) ==
    IF \A i \in 1..Len(rows_seq) : TaskResponse_ok(rows_seq[i])
    THEN Response(op, 0, args, "ok", rows_seq, HTTP_200_OK,
                  [i \in 1..Len(rows_seq) |-> TaskResponse(rows_seq[i])],
                  total, page, page_size)
    ELSE internal_error(op, 0, args, "ok", rows_seq, ResponseError(op))

\* POST /tasks
route_create_task(raw) ==
    /\ service.state = "serving"
    /\ UNCHANGED <<db_now, app_now, service, inflight>>
    /\ IF ~TaskCreate_ok(raw)
       THEN /\ resp' = Plain("create", 0, raw, "skipped", HTTP_422_UNPROCESSABLE)
            /\ UNCHANGED tasks
       ELSE LET db_task == create_task(tasks, TaskCreate(raw), db_now) IN
            /\ db_task.id <= MaxId
            /\ tasks' = tasks \cup {db_task}
            /\ resp' = task_response("create", db_task.id, raw, db_task,
                                     HTTP_201_CREATED)

\* GET /tasks/{task_id}
route_get_task(task_id) ==
    /\ service.state = "serving"
    /\ UNCHANGED <<tasks, db_now, app_now, service, inflight>>
    /\ LET db_task == get_task_by_id(tasks, task_id) IN
       resp' = IF db_task = None
               THEN not_found("get", task_id, NoArgs)
               ELSE task_response("get", task_id, NoArgs, db_task[1], HTTP_200_OK)

\* crud.update_task behind PUT /tasks/{task_id} and PATCH /tasks/{task_id}/complete
update_request(op, task_id, args, update_data) ==
    LET db_task == get_task_by_id(tasks, task_id) IN
    IF db_task = None
    THEN /\ resp' = not_found(op, task_id, args)
         /\ UNCHANGED tasks
    ELSE LET attrs == set_attrs(Attrs(db_task[1]), update_data) IN
         IF ~not_null_ok(attrs)
         THEN \* db.commit() raises, db.rollback(), raise
              /\ resp' = internal_error(op, task_id, args, "raised", <<>>,
                                        IntegrityError(attrs))
              /\ UNCHANGED tasks
         ELSE LET row == update_task(db_task[1], attrs, app_now) IN
              /\ tasks' = (tasks \ {db_task[1]}) \cup {row}
              /\ resp' = task_response(op, task_id, args, row, HTTP_200_OK)

\* PUT /tasks/{task_id}
route_update_task(task_id, raw) ==
    /\ service.state = "serving"
    /\ UNCHANGED <<db_now, app_now, service, inflight>>
    /\ IF ~TaskUpdate_ok(raw)
       THEN /\ resp' = Plain("update", task_id, raw, "skipped", HTTP_422_UNPROCESSABLE)
            /\ UNCHANGED tasks
       ELSE update_request("update", task_id, raw, model_dump_exclude_unset(raw))

\* PATCH /tasks/{task_id}/complete
route_mark_task_completed(task_id) ==
    /\ service.state = "serving"
    /\ UNCHANGED <<db_now, app_now, service, inflight>>
    /\ update_request("complete", task_id, NoArgs, mark_task_as_completed_update)

\* DELETE /tasks/{task_id}
route_delete_task(task_id) ==
    /\ service.state = "serving"
    /\ UNCHANGED <<db_now, app_now, service, inflight>>
    /\ LET db_task == get_task_by_id(tasks, task_id) IN
       IF db_task = None
       THEN /\ resp' = not_found("delete", task_id, NoArgs)
            /\ UNCHANGED tasks
       ELSE /\ tasks' = delete_task(tasks, db_task[1])
            /\ resp' = Plain("delete", task_id, NoArgs, "ok", HTTP_200_OK)

\* The unit of work left as it stands after the exception: what was flushed
\* stays
rollback_keep(rows, pending) == pending

\* db.rollback() in the except branch of create_task, update_task and
\* delete_task: the pending changes of the unit of work are discarded
rollback(rows, pending) == rows

\* str() of the error of a store that cannot commit
OperationalError == "OperationalError: database is locked"

\* POST /tasks when db.commit() raises: crud.create_task rolls back and
\* re-raises, the route answers HTTPException(500)
route_create_task_store_error(raw) ==
    /\ service.state = "serving"
    /\ TaskCreate_ok(raw)
    /\ UNCHANGED <<db_now, app_now, service, inflight>>
    /\ LET db_task == create_task(tasks, TaskCreate(raw), db_now) IN
       /\ tasks' = rollback(tasks, tasks \cup {db_task})
       /\ resp' = Response("create", 0, raw, "raised", <<>>,
                     HTTP_500_INTERNAL_SERVER_ERROR,
                     <<http_exception_handler(HTTP_500_INTERNAL_SERVER_ERROR,
                          "Erreur lors de la creation de la tache")>>, 0, 0, 0)

\* PUT /tasks/{task_id} when db.commit() raises: crud.update_task rolls back
\* and re-raises, no route catches
route_update_task_store_error(task_id, raw) ==
    LET db_task == get_task_by_id(tasks, task_id)
        attrs == set_attrs(Attrs(db_task[1]), model_dump_exclude_unset(raw)) IN
    /\ service.state = "serving"
    /\ TaskUpdate_ok(raw)
    /\ db_task # None
    /\ not_null_ok(attrs)
    /\ UNCHANGED <<db_now, app_now, service, inflight>>
    /\ tasks' = rollback(tasks, (tasks \ {db_task[1]})
                                  \cup {update_task(db_task[1], attrs, app_now)})
    /\ resp' = internal_error("update", task_id, raw, "raised", <<>>,
                              OperationalError)

\* DELETE /tasks/{task_id} when db.commit() raises: crud.delete_task rolls
\* back and re-raises, no route catches
route_delete_task_store_error(task_id) ==
    LET db_task == get_task_by_id(tasks, task_id) IN
    /\ service.state = "serving"
    /\ db_task # None
    /\ UNCHANGED <<db_now, app_now, service, inflight>>
    /\ tasks' = rollback(tasks, delete_task(tasks, db_task[1]))
    /\ resp' = internal_error("delete", task_id, NoArgs, "raised", <<>>,
                              OperationalError)

\* GET /tasks?skip&limit&status&priority
route_get_tasks(skip, limit, status, priority) ==
    /\ service.state = "serving"
    /\ UNCHANGED <<tasks, db_now, app_now, service, inflight>>
    /\ \E page_rows \in get_all_tasks(tasks, skip, limit, status, priority) :
         resp' = list_response("list",
                     [skip |-> skip, limit |-> limit,
                      status |-> status, priority |-> priority],
                     page_rows,
                     get_tasks_count(tasks, status, priority),
                     (skip \div limit) + 1,
                     limit)

\* GET /tasks/status/{status}
route_get_tasks_by_status(status, skip, limit) ==
    /\ service.state = "serving"
    /\ UNCHANGED <<tasks, db_now, app_now, service, inflight>>
    /\ \E page_rows \in get_tasks_by_status(tasks, status, skip, limit) :
         resp' = list_response("by_status",
                     [skip |-> skip, limit |-> limit,
                      status |-> Some(status), priority |-> None],
                     page_rows, 0, 0, 0)

\* GET /tasks/priority/{priority}
route_get_tasks_by_priority(priority, skip, limit) ==
    /\ service.state = "serving"
    /\ UNCHANGED <<tasks, db_now, app_now, service, inflight>>
    /\ \E page_rows \in get_tasks_by_priority(tasks, priority, skip, limit) :
         resp' = list_response("by_priority",
                     [skip |-> skip, limit |-> limit,
                      status |-> None, priority |-> Some(priority)],
                     page_rows, 0, 0, 0)

\* GET /tasks/overdue/list: .all() without ORDER BY, the store chooses the order
route_get_overdue_tasks ==
    /\ service.state = "serving"
    /\ UNCHANGED <<tasks, db_now, app_now, service, inflight>>
    /\ \E o \in Perms(get_overdue_tasks(tasks, app_now)) :
         resp' = list_response("overdue", [now |-> app_now], o, 0, 0, 0)

\* GET /stats/summary: nine counts and the length of the overdue list, read
\* one after the other in the request's session; the dict is returned as it is
\* (no response model)
route_get_stats_summary ==
    /\ service.state = "serving"
    /\ UNCHANGED <<tasks, db_now, app_now, service, inflight>>
    /\ resp' = Response("stats", 0, [now |-> app_now], "ok", <<>>, HTTP_200_OK,
          << [ total_tasks |-> get_tasks_count(tasks, None, None),
               by_status |->
                 [st \in StatusEnum |-> get_tasks_count(tasks, Some(st), None)],
               by_priority |->
                 [pr \in PriorityEnum |-> get_tasks_count(tasks, None, Some(pr))],
               overdue_tasks |-> Cardinality(get_overdue_tasks(tasks, app_now)) ] >>,
          0, 0, 0)

\* The clocks advance on their own
TickApp ==
    /\ app_now < MaxTime
    /\ app_now' = app_now + 1
    /\ UNCHANGED <<tasks, db_now, resp, service, inflight>>

TickDb ==
    /\ db_now < MaxTime
    /\ db_now' = db_now + 1
    /\ UNCHANGED <<tasks, app_now, resp, service, inflight>>

\* database.py, lines 27-33: the url of config.json, or the local SQLite file
\* when config.json cannot be read
DATABASE_URL(config_json) ==
    IF config_json THEN "config.database.url" ELSE "sqlite:///./tasks.db"

\* main.load_config(), called when main.py is imported: it re-raises the
\* FileNotFoundError of a missing config.json
load_config_raises(config_json) == ~config_json

\* Starting the server: main.py imports database.py (DATABASE_URL, engine),
\* then runs load_config(); the import fails when load_config raises, else
\* the application is built and its lifespan runs create_tables()
main_startup ==
    /\ service.state = "stopped"
    /\ service' = [service EXCEPT
                     !.database_url = DATABASE_URL(service.config_json),
                     !.state = IF load_config_raises(service.config_json)
                               THEN "failed" ELSE "serving"]
    /\ UNCHANGED <<tasks, db_now, app_now, resp, inflight>>

-----------------------------------------------------------------------------
(* Requests served step by step.  A handler is a sequence of round trips   *)
(* to the store; server processes bound to the same store (several workers *)
(* behind one DATABASE_URL, or init_db.py run next to the server) take     *)
(* their round trips in any order.  inflight[c] is the request client c    *)
(* has in flight: where its handler stands (pc), the session get_db gave   *)
(* it, the row or the page it has read, and the response once computed.    *)
(* A SELECT reads the committed rows of the moment it is run: the session  *)
(* holds no snapshot between two statements.                               *)

Clients == {"c1", "c2"}

Idle ==
    [ pc |-> "idle", session |-> "none", closes |-> 0, op |-> "none",
      id |-> 0, args |-> NoArgs, data |-> <<>>, loaded |-> None,
      page |-> <<>>, out |-> Plain("none", 0, NoArgs, "skipped", 0) ]

NoRequests == [c \in Clients |-> Idle]

\* get_db without the try/finally: db.close() runs only when the handler
\* returned normally
get_db_close_after_yield(req) ==
    IF req.out.code < 400
    THEN [Idle EXCEPT !.pc = "done", !.session = "closed",
                      !.closes = req.closes + 1]
    ELSE [Idle EXCEPT !.pc = "done", !.session = req.session,
                      !.closes = req.closes]

\* get_db, lines 72-73: finally: db.close().  The request is over: what is
\* left of it is that its session was closed.
get_db_finally(req) ==
    [Idle EXCEPT !.pc = "done", !.session = "closed",
                 !.closes = req.closes + 1]

\* get_db, lines 69-71: db = SessionLocal(); yield db.  The request of
\* client c enters its handler with a new session.
get_db_open(c, op, id, args, data) ==
    /\ service.state = "serving"
    /\ inflight[c].pc \in {"idle", "done"}
    /\ inflight' = [inflight EXCEPT ![c] =
                      [Idle EXCEPT !.pc = "handler", !.session = "open",
                                   !.op = op, !.id = id, !.args = args,
                                   !.data = data]]
    /\ UNCHANGED <<tasks, db_now, app_now, resp, service>>

\* The handler left (return or exception), the generator of get_db is
\* finalised and the response goes to the client
get_db_close(c) ==
    /\ inflight[c].pc = "exit"
    /\ inflight' = [inflight EXCEPT ![c] = get_db_finally(inflight[c])]
    /\ resp' = inflight[c].out
    /\ UNCHANGED <<tasks, db_now, app_now, service>>

\* crud.get_task_by_id, the one SELECT of GET /tasks/{id} and the first
\* round trip of crud.update_task (line 171)
get_task_by_id_step(c) ==
    LET req == inflight[c]
        db_task == get_task_by_id(tasks, req.id) IN
    /\ req.pc = "handler"
    /\ req.op \in {"get", "update", "complete"}
    /\ inflight' = [inflight EXCEPT ![c] =
         IF db_task = None
         THEN [req EXCEPT !.pc = "exit",
                          !.out = not_found(req.op, req.id, req.args)]
         ELSE IF req.op = "get"
         THEN [req EXCEPT !.pc = "exit", !.loaded = db_task,
                          !.out = task_response("get", req.id, req.args,
                                                db_task[1], HTTP_200_OK)]
         ELSE [req EXCEPT !.pc = "commit", !.loaded = db_task]]
    /\ UNCHANGED <<tasks, db_now, app_now, resp, service>>

\* An UPDATE that writes every column of the loaded object
dirty_all(loaded, attrs) == DOMAIN attrs

\* The unit of work at flush: the attributes whose value differs from the
\* loaded one; only these columns go into the UPDATE statement
dirty(loaded, attrs) == {f \in DOMAIN attrs : attrs[f] # loaded[f]}

\* UPDATE tasks SET <dirty columns> WHERE id = ?: the other columns keep what
\* the store holds
flush_update(row, attrs, columns) ==
    LET merged == [f \in DOMAIN attrs |->
                     IF f \in columns THEN attrs[f] ELSE Attrs(row)[f]] IN
    update_task(row, merged, merged.updated_at[1])

\* str() of what SQLAlchemy raises when the row of the loaded object is gone:
\* the UPDATE matches no row, or, with nothing to write, db.refresh finds none
RowGone(columns) ==
    IF columns # {}
    THEN "StaleDataError: UPDATE statement on table 'tasks' expected to update 1 row(s); 0 were matched."
    ELSE "InvalidRequestError: Could not refresh instance"

\* crud.update_task, lines 176-194: setattr on the loaded object, updated_at,
\* db.commit() (flush of the dirty columns), db.refresh(); on an exception
\* db.rollback() and raise
update_task_commit(c) ==
    LET req == inflight[c]
        loaded == Attrs(req.loaded[1])
        attrs == [set_attrs(loaded, req.data) EXCEPT
                    !.updated_at = Some(app_now)]
        columns == dirty(loaded, attrs)
        db_task == get_task_by_id(tasks, req.id) IN
    /\ req.pc = "commit"
    /\ UNCHANGED <<db_now, app_now, resp, service>>
    /\ IF db_task = None
       THEN /\ inflight' = [inflight EXCEPT ![c] = [req EXCEPT
                   !.pc = "exit",
                   !.out = internal_error(req.op, req.id, req.args, "raised",
                                          <<>>, RowGone(columns))]]
            /\ UNCHANGED tasks
       ELSE IF ~not_null_ok(attrs)
       THEN /\ inflight' = [inflight EXCEPT ![c] = [req EXCEPT
                   !.pc = "exit",
                   !.out = internal_error(req.op, req.id, req.args, "raised",
                                          <<>>, IntegrityError(attrs))]]
            /\ UNCHANGED tasks
       ELSE LET row == flush_update(db_task[1], attrs, columns) IN
            /\ tasks' = (tasks \ {db_task[1]}) \cup {row}
            /\ inflight' = [inflight EXCEPT ![c] = [req EXCEPT
                   !.pc = "exit",
                   !.out = task_response(req.op, req.id, req.args, row,
                                         HTTP_200_OK)]]

\* routes.get_tasks, lines 94-100: crud.get_all_tasks, the first query
get_tasks_page(c) ==
    LET req == inflight[c] IN
    /\ req.pc = "handler"
    /\ req.op = "list"
    /\ \E page_rows \in get_all_tasks(tasks, req.args.skip, req.args.limit,
                                      req.args.status, req.args.priority) :
         inflight' = [inflight EXCEPT ![c] =
                        [req EXCEPT !.pc = "count", !.page = page_rows]]
    /\ UNCHANGED <<tasks, db_now, app_now, resp, service>>

\* routes.get_tasks, lines 101-108: crud.get_tasks_count, the second query,
\* then TaskList(...)
get_tasks_total(c) ==
    LET req == inflight[c] IN
    /\ req.pc = "count"
    /\ inflight' = [inflight EXCEPT ![c] = [req EXCEPT
           !.pc = "exit",
           !.out = list_response("list", req.args, req.page,
                       get_tasks_count(tasks, req.args.status,
                                       req.args.priority),
                       (req.args.skip \div req.args.limit) + 1,
                       req.args.limit)]]
    /\ UNCHANGED <<tasks, db_now, app_now, resp, service>>

\* A server that was started with its config.json and is serving
Serving ==
    [config_json |-> TRUE, state |-> "serving",
     database_url |-> DATABASE_URL(TRUE)]

\* The store after create_tables() on an empty database; no request yet
Init ==
    /\ tasks = {}
    /\ db_now = 0
    /\ app_now = 0
    /\ resp = Plain("none", 0, NoArgs, "skipped", 0)
    /\ service = Serving
    /\ inflight = NoRequests

-----------------------------------------------------------------------------
(* Request inputs.  Each specification draws the requests of the clients   *)
(* from small sets of payloads, ids and query parameters.                  *)

T_abc == Str(0, 3, 0)       \* "abc"

T_abcd == Str(0, 4, 0)      \* "abcd"

T_ab == Str(0, 2, 0)        \* "Ab", the test's too short title

T_pad == Str(1, 2, 0)       \* " ab": three characters, two after stripping

T_blank == Str(3, 0, 0)     \* "   "

T_max == Str(0, TitleMaxLength, 0)

T_long == Str(0, TitleMaxLength + 1, 0)

D_text == Str(0, 1, 0)

D_long == Str(0, DescriptionMaxLength + 1, 0)

RequestIds == 1..MaxId

Rejected422 ==
    { [title |-> Some(T_ab)],
      [title |-> Some(T_blank)],
      [title |-> Some(T_long)],
      [title |-> Some(T_abc), description |-> Some(D_long)],
      [title |-> Some(T_abc), priority |-> Some("invalid_priority")],
      [title |-> Some(T_abc), status |-> Some("done")] }

(* Scenario 1, Spec: creation, validation of titles, deletion.             *)

Creates ==
    { [title |-> Some(T_abc)],
      [title |-> Some(T_pad)],
      [title |-> Some(T_max)],
      [priority |-> Some("high")],
      [title |-> None] }
        \cup Rejected422

Updates ==
    { [title |-> Some(T_abcd)],
      [title |-> Some(T_pad)],
      [title |-> Some(T_blank)],
      [title |-> None],
      [priority |-> None],
      [status |-> None] }
        \cup Rejected422

Next ==
    \/ \E raw \in Creates : route_create_task(raw)
    \/ \E id \in RequestIds : route_get_task(id)
    \/ \E id \in RequestIds, raw \in Updates : route_update_task(id, raw)
    \/ \E id \in RequestIds : route_mark_task_completed(id)
    \/ \E id \in RequestIds : route_delete_task(id)
    \/ \E limit \in {1, LimitDefault} : route_get_tasks(0, limit, None, None)

Spec == Init /\ [][Next]_vars

(* Scenario 2, SpecFrame: one task created, partially updated with every   *)
(* subset of the fields, deleted and created again.                        *)

\* The value an update of the frame scenario sends for a field
FrameValue(f) ==
    CASE f = "title" -> Some(T_abcd)
      [] f = "description" -> Some(D_text)
      [] f = "priority" -> Some("high")
      [] f = "status" -> Some("completed")
      [] f = "due_date" -> Some(1)

\* PUT bodies that carry keys TaskUpdate does not declare
ExtraKeyUpdates ==
    { [id |-> Some(MaxId), created_at |-> Some(t), updated_at |-> Some(t)] :
        t \in {0, MaxTime} }
        \cup { [status |-> Some("in_progress"), id |-> Some(MaxId),
                created_at |-> Some(0)] }

\* PUT bodies: every subset of the fields with a value, each field alone as
\* null, and the bodies with undeclared keys
FrameUpdates ==
    {[f \in F |-> FrameValue(f)] : F \in SUBSET Fields}
        \cup {[f \in {g} |-> None] : g \in Fields}
        \cup ExtraKeyUpdates

FrameCreates == { [title |-> Some(T_abc)] }

NextFrame ==
    \/ /\ tasks = {}
       /\ \E raw \in FrameCreates : route_create_task(raw)
    \/ \E id \in RequestIds : route_get_task(id)
    \/ \E id \in RequestIds, raw \in FrameUpdates : route_update_task(id, raw)
    \/ \E id \in RequestIds : route_mark_task_completed(id)
    \/ \E id \in RequestIds : route_delete_task(id)

\* The service may start at any reading of the two clocks
InitFrame ==
    /\ tasks = {}
    /\ db_now \in 0..MaxTime
    /\ app_now \in 0..MaxTime
    /\ resp = Plain("none", 0, NoArgs, "skipped", 0)
    /\ service = Serving
    /\ inflight = NoRequests

SpecFrame == InitFrame /\ [][NextFrame]_vars

(* Scenario 3, SpecList: filtered, ordered and paginated listing.          *)

ListCreates ==
    { [title |-> Some(T_abc)],
      [title |-> Some(T_abc), priority |-> Some("high")],
      [title |-> Some(T_abc), status |-> Some("completed"),
       priority |-> Some("high")] }

\* Readings of the store's clock in this scenario: 0..MaxListTime
MaxListTime == 1

ListSkips == 0..MaxId

ListLimits == {1, 2, LimitMax}

ListStatuses == {None, Some("todo")}

ListPriorities == {None, Some("high")}

NextList ==
    \/ \E raw \in ListCreates : route_create_task(raw)
    \/ \E id \in RequestIds : route_delete_task(id)
    \/ \E skip \in ListSkips, limit \in ListLimits,
          status \in ListStatuses, priority \in ListPriorities :
            route_get_tasks(skip, limit, status, priority)
    \/ route_get_tasks_by_status("todo", 0, LimitDefault)
    \/ route_get_tasks_by_priority("high", 0, LimitDefault)
    \/ (db_now < MaxListTime /\ TickDb)

SpecList == Init /\ [][NextList]_vars

(* Scenario 4, SpecOverdue: due dates against the application clock.       *)

OverdueCreates ==
    { [title |-> Some(T_abc), status |-> Some(st), due_date |-> due] :
        st \in {"todo", "in_progress", "completed", "cancelled"},
        due \in {None, Some(1)} }
        \cup { [title |-> Some(T_abc), priority |-> Some(pr)] :
                 pr \in {"low", "high", "urgent"} }

NextOverdue ==
    \/ \E raw \in OverdueCreates : route_create_task(raw)
    \/ \E id \in RequestIds : route_delete_task(id)
    \/ route_get_overdue_tasks
    \/ route_get_stats_summary
    \/ TickApp

SpecOverdue == Init /\ [][NextOverdue]_vars

(* Scenario 5, SpecTime: the two clocks behind created_at and updated_at.  *)

TimeUpdates == { <<>>, [status |-> Some("in_progress")] }

NextTime ==
    \/ route_create_task([title |-> Some(T_abc)])
    \/ \E id \in RequestIds, raw \in TimeUpdates : route_update_task(id, raw)
    \/ \E id \in RequestIds : route_mark_task_completed(id)
    \/ \E id \in RequestIds : route_delete_task(id)
    \/ TickApp
    \/ TickDb

SpecTime == Init /\ [][NextTime]_vars

(* Scenario 6, SpecStart: the server is started with or without its        *)
(* config.json and then serves requests.                                   *)

StartCreates ==
    { [title |-> Some(T_abc)],
      [title |-> Some(T_abcd), priority |-> Some("high")] }

NextStart ==
    \/ main_startup
    \/ \E raw \in StartCreates : route_create_task(raw)
    \/ \E id \in RequestIds : route_get_task(id)
    \/ \E id \in RequestIds : route_mark_task_completed(id)
    \/ \E id \in RequestIds : route_delete_task(id)
    \/ TickDb

\* Before the server is started; config.json is there or not
InitStart ==
    /\ tasks = {}
    /\ db_now = 0
    /\ app_now = 0
    /\ resp = Plain("none", 0, NoArgs, "skipped", 0)
    /\ service \in { [config_json |-> c, state |-> "stopped",
                       database_url |-> "unset"] : c \in BOOLEAN }
    /\ inflight = NoRequests

SpecStart == InitStart /\ [][NextStart]_vars

(* Scenario 7, SpecMany: a store holding up to two tasks more than the     *)
(* default limit of the list routes, listed by status and by priority.     *)

\* The store after n accepted creates, one per reading of the store's clock:
\* the first task completed with priority low, the others todo with
\* priority high
RECURSIVE Created(_)
Created(n) ==
    IF n = 0 THEN {}
    ELSE LET rows == Created(n - 1)
             raw == IF n = 1
                    THEN [title |-> Some(T_abc), status |-> Some("completed"),
                          priority |-> Some("low")]
                    ELSE [title |-> Some(T_abc), priority |-> Some("high")]
         IN  rows \cup {create_task(rows, TaskCreate(raw), n)}

InitMany ==
    /\ \E n \in 0..(LimitDefault + 2) : tasks = Created(n) /\ db_now = n
    /\ app_now = 0
    /\ resp = Plain("none", 0, NoArgs, "skipped", 0)
    /\ service = Serving
    /\ inflight = NoRequests

NextMany ==
    \/ \E status \in StatusEnum : route_get_tasks_by_status(status, 0, LimitDefault)
    \/ \E priority \in PriorityEnum :
          route_get_tasks_by_priority(priority, 0, LimitDefault)
    \/ \E id \in RequestIds : route_delete_task(id)

SpecMany == InitMany /\ [][NextMany]_vars

(* Scenario 8, SpecFail: a store that may refuse a commit.                  *)

FailCreates ==
    { [title |-> Some(T_abc)],
      [title |-> Some(T_abc), priority |-> Some("high")] }

FailUpdates ==
    { [title |-> Some(T_abcd)],
      [status |-> Some("in_progress"), due_date |-> Some(1)],
      [title |-> None] }

NextFail ==
    \/ \E raw \in FailCreates : route_create_task(raw)
    \/ \E raw \in FailCreates : route_create_task_store_error(raw)
    \/ \E id \in RequestIds, raw \in FailUpdates : route_update_task(id, raw)
    \/ \E id \in RequestIds, raw \in FailUpdates :
         route_update_task_store_error(id, raw)
    \/ \E id \in RequestIds : route_delete_task(id)
    \/ \E id \in RequestIds : route_delete_task_store_error(id)

SpecFail == Init /\ [][NextFail]_vars

(* Scenario 9, SpecSession: requests served step by step, each with the    *)
(* session of get_db, on every exit path of a handler.                     *)

\* The round trips and the exit of the request client c has in flight
Steps(c) ==
    \/ get_task_by_id_step(c)
    \/ update_task_commit(c)
    \/ get_tasks_page(c)
    \/ get_tasks_total(c)
    \/ get_db_close(c)

\* One client sends the requests of this scenario, one after the other
SessionClients == {"c1"}

SessionCreates == { [title |-> Some(T_abc)], [title |-> Some(T_pad)] }

SessionUpdates == { [title |-> Some(T_abcd)], [title |-> None] }

ListAll == [skip |-> 0, limit |-> LimitDefault, status |-> None, priority |-> None]

NextSession ==
    \/ /\ tasks = {}
       /\ \E raw \in SessionCreates : route_create_task(raw)
    \/ \E id \in RequestIds : route_delete_task(id)
    \/ \E c \in SessionClients, id \in RequestIds :
         get_db_open(c, "get", id, NoArgs, <<>>)
    \/ \E c \in SessionClients, id \in RequestIds, raw \in SessionUpdates :
         get_db_open(c, "update", id, raw, model_dump_exclude_unset(raw))
    \/ \E c \in SessionClients : get_db_open(c, "list", 0, ListAll, <<>>)
    \/ \E c \in SessionClients : Steps(c)

\* The server runs a handler it has entered to its end and finalises the
\* dependency: a request in flight takes its next step
SpecSession ==
    Init /\ [][NextSession]_vars /\ \A c \in SessionClients : WF_vars(Steps(c))

(* Scenario 10, SpecRace: two clients whose requests are served by server  *)
(* processes sharing the store; creates and deletes commit between the     *)
(* round trips of an update or of a list.                                  *)

RaceCreates == { [title |-> Some(T_abc)] }

RaceUpdates ==
    { [title |-> Some(T_abcd)],
      [priority |-> Some("high")] }

NextRace ==
    \/ /\ tasks = {}
       /\ \E raw \in RaceCreates : route_create_task(raw)
    \/ \E id \in RequestIds : route_delete_task(id)
    \/ \E c \in Clients, id \in RequestIds, raw \in RaceUpdates :
         get_db_open(c, "update", id, raw, model_dump_exclude_unset(raw))
    \/ \E id \in RequestIds :
         get_db_open("c2", "complete", id, NoArgs, mark_task_as_completed_update)
    \/ get_db_open("c1", "list", 0, ListAll, <<>>)
    \/ \E c \in Clients : Steps(c)

SpecRace == Init /\ [][NextRace]_vars

-----------------------------------------------------------------------------
(* Claims *)

\* The value of request field f in a stored row, as a nullable value
StoredField(row, f) ==
    CASE f = "title" -> <<row.title>>
      [] f = "description" -> row.description
      [] f = "priority" -> <<row.priority>>
      [] f = "status" -> <<row.status>>
      [] f = "due_date" -> row.due_date

RowsWithId(rows, id) == {r \in rows : r.id = id}

\* C1: after a successful update of an existing task, every field the payload
\* supplies holds the supplied value and every field it does not supply,
\* id and created_at included (updated_at excluded), has the value it had
\* before the update.
C1_UpdateFrame ==
    [][ (resp' # resp /\ resp'.op = "update" /\ resp'.crud = "ok") =>
          \E old \in RowsWithId(tasks, resp'.id) :
          \E new \in RowsWithId(tasks', resp'.id) :
            /\ RowsWithId(tasks', resp'.id) = {new}
            /\ new.id = old.id
            /\ new.created_at = old.created_at
            /\ \A f \in Fields :
                 IF f \in DOMAIN resp'.args
                 THEN StoredField(new, f) = resp'.args[f]
                 ELSE StoredField(new, f) = StoredField(old, f) ]_vars

\* C1 witness: an update that supplied only the status went through on a task
\* whose title and description had been set by earlier updates, at a clock
\* reading other than the task's created_at.
C1_Witness ==
    /\ resp.op = "update"
    /\ resp.crud = "ok"
    /\ resp.code = HTTP_200_OK
    /\ DOMAIN resp.args = {"status"}
    /\ \E r \in tasks :
         /\ r.id = resp.id
         /\ r.title = T_abcd
         /\ r.description = Some(D_text)
         /\ r.priority = "medium"
         /\ r.updated_at # r.created_at

\* The title a data-access layer behind the validation of section 4.1 may
\* store: no leading or trailing whitespace, not blank, 3 to 200 characters
TitleWellFormed(t) ==
    /\ t.lead = 0
    /\ t.trail = 0
    /\ t.core > 0
    /\ StrLen(t) >= TitleMinLength
    /\ StrLen(t) <= TitleMaxLength

\* C2: in every reachable state the title of every stored task is trimmed,
\* is not blank and has between 3 and 200 characters.
C2_StoredTitlesWellFormed ==
    \A r \in tasks : TitleWellFormed(r.title)

\* C3: a successful delete removes exactly the task with that id; a delete of
\* an id no stored task has answers not-found (never an error) and leaves the
\* store unchanged; a get of an id no stored task has answers not-found.
C3_DeleteThenNotFound ==
    [][ /\ (resp' # resp /\ resp'.op = "delete")
           => \/ /\ resp'.code = HTTP_200_OK
                 /\ resp'.crud = "ok"
                 /\ resp'.id \in Ids(tasks)
                 /\ resp'.id \notin Ids(tasks')
                 /\ tasks' = {r \in tasks : r.id # resp'.id}
              \/ /\ resp'.code = HTTP_404_NOT_FOUND
                 /\ resp'.crud = "none"
                 /\ resp'.id \notin Ids(tasks)
                 /\ tasks' = tasks
        /\ (resp' # resp /\ resp'.op = "get" /\ resp'.id \notin Ids(tasks))
           => /\ resp'.code = HTTP_404_NOT_FOUND
              /\ tasks' = tasks ]_vars

\* C3 witness: a delete has succeeded, another task is still stored and the
\* deleted id is gone.
C3_Witness ==
    /\ resp.op = "delete"
    /\ resp.code = HTTP_200_OK
    /\ tasks # {}
    /\ resp.id \notin Ids(tasks)

\* C4: create returns a task whose id is a positive integer that exactly one
\* stored task has, and no two stored tasks ever share an id.
C4_UniquePositiveIds ==
    /\ \A r \in tasks : r.id \in Nat /\ r.id > 0
    /\ \A r1, r2 \in tasks : r1.id = r2.id => r1 = r2
    /\ (resp.op = "create" /\ resp.crud = "ok")
         => /\ resp.id > 0
            /\ Len(resp.rows) = 1
            /\ resp.rows[1].id = resp.id
            /\ RowsWithId(tasks, resp.id) = {resp.rows[1]}

\* C4 witness: a create has returned id 2 while another task, with other
\* field values, is stored under id 1.
C4_Witness ==
    /\ resp.op = "create"
    /\ resp.crud = "ok"
    /\ resp.id = 2
    /\ \E r \in tasks : r.id = 1 /\ r.title # resp.rows[1].title

\* The stored tasks that are overdue at the reading now, in the words of
\* section 4.2: due strictly before now, neither completed nor cancelled
Overdue(rows, now) ==
    {r \in rows : /\ r.due_date # None
                  /\ r.due_date[1] < now
                  /\ r.status \notin {"completed", "cancelled"}}

\* The elements of a sequence
Range(seq) == {seq[i] : i \in 1..Len(seq)}

NoDuplicates(seq) ==
    \A i, j \in 1..Len(seq) : i # j => seq[i] # seq[j]

\* C5: list_overdue returns exactly the stored tasks whose due_date is
\* strictly before now and whose status is neither completed nor cancelled,
\* each once; a task without due_date, or due exactly now, is not returned.
C5_OverdueExact ==
    resp.op = "overdue" =>
        /\ resp.crud = "ok"
        /\ Range(resp.rows) = Overdue(tasks, resp.args.now)
        /\ NoDuplicates(resp.rows)
        /\ \A i \in 1..Len(resp.rows) :
             /\ resp.rows[i].due_date # None
             /\ resp.rows[i].due_date[1] # resp.args.now

\* C5 witness: of two stored tasks the overdue listing returned one, and the
\* other is an open task without due_date.
C5_Witness ==
    /\ resp.op = "overdue"
    /\ Len(resp.rows) = 1
    /\ Cardinality(tasks) = 2
    /\ \E r \in tasks : /\ r.due_date = None
                        /\ r.status \in {"todo", "in_progress"}

\* The stored tasks that match the optional filters
Matching(rows, status, priority) ==
    {r \in rows : /\ (status = None \/ r.status = status[1])
                  /\ (priority = None \/ r.priority = priority[1])}

\* C6: for every combination of the status and priority filters, count is
\* the number of stored tasks that match them and the length of the list of
\* the same filters with skip 0 and a limit no smaller than the table; the
\* total of a list response is that count whatever skip and limit are.
C6_CountEqualsListLength ==
    /\ \A status \in ListStatuses, priority \in ListPriorities :
         /\ get_tasks_count(tasks, status, priority)
              = Cardinality(Matching(tasks, status, priority))
         /\ \A limit \in {Cardinality(tasks), LimitMax} :
              \A l \in get_all_tasks(tasks, 0, limit, status, priority) :
                Len(l) = get_tasks_count(tasks, status, priority)
    /\ (resp.op = "list" /\ resp.code = HTTP_200_OK)
         => resp.total = Cardinality(Matching(tasks, resp.args.status,
                                                     resp.args.priority))

\* C6 witness: a filtered list with a skip past its only match answered an
\* empty page and total 1 while two tasks are stored.
C6_Witness ==
    /\ resp.op = "list"
    /\ resp.code = HTTP_200_OK
    /\ resp.args.status # None
    /\ resp.args.skip > 0
    /\ resp.total = 1
    /\ Len(resp.body) = 0
    /\ Cardinality(tasks) = 2

\* C7: GET /tasks answers min(limit, max(0, total - skip)) tasks and a total
\* that is the number of stored tasks matching the filters, whatever skip and
\* limit are.
C7_PageLength ==
    resp.op = "list" =>
        /\ resp.code = HTTP_200_OK
        /\ resp.total = Cardinality(Matching(tasks, resp.args.status,
                                                    resp.args.priority))
        /\ Len(resp.body) = Min(resp.args.limit,
                                Max(0, resp.total - resp.args.skip))

\* C8: list returns only stored tasks that match the filters, each at most
\* once, with created_at not increasing along the result, and the result is
\* positions skip+1 .. skip+limit of a newest-first order of the matches.
C8_ListOrderedSlice ==
    resp.op \in {"list", "by_status", "by_priority"} =>
        LET M == Matching(tasks, resp.args.status, resp.args.priority)
            n == Cardinality(M)
            rows == resp.rows
        IN  /\ Range(rows) \subseteq M
            /\ NoDuplicates(rows)
            /\ \A i \in 1..(Len(rows) - 1) :
                 rows[i].created_at >= rows[i + 1].created_at
            /\ Len(rows) = Min(resp.args.limit, Max(0, n - resp.args.skip))
            /\ \E o \in [1..n -> M] :
                 /\ \A i, j \in 1..n : i # j => o[i] # o[j]
                 /\ \A i \in 1..(n - 1) : o[i].created_at >= o[i + 1].created_at
                 /\ \A i \in 1..Len(rows) : rows[i] = o[resp.args.skip + i]

\* C8 witness: with two matching tasks created at different readings of the
\* store's clock, a list with skip 1 returned the older one alone.
C8_Witness ==
    /\ resp.op = "list"
    /\ resp.args.skip = 1
    /\ Len(resp.rows) = 1
    /\ Cardinality(Matching(tasks, resp.args.status, resp.args.priority)) = 2
    /\ \E r \in tasks : r.created_at > resp.rows[1].created_at

\* C9: every successful mutation of an existing task (an update with any
\* accepted payload, the empty one included, and mark_completed) leaves the
\* task's updated_at strictly greater than it was before the mutation.
C9_UpdatedAtStrictlyIncreases ==
    [][ (resp' # resp /\ resp'.op \in {"update", "complete"} /\ resp'.crud = "ok")
          => \A old \in RowsWithId(tasks, resp'.id) :
             \A new \in RowsWithId(tasks', resp'.id) :
               new.updated_at > old.updated_at ]_vars

\* C10: right after a create the task's created_at equals its updated_at,
\* and in every reachable state every stored task's updated_at is greater
\* than or equal to its created_at.
C10_UpdatedAtNotBeforeCreatedAt ==
    /\ (resp.op = "create" /\ resp.crud = "ok")
         => resp.rows[1].created_at = resp.rows[1].updated_at
    /\ \A r \in tasks : r.updated_at >= r.created_at

\* C11: no update or mark_completed request, whatever its payload (payloads
\* with id, created_at or updated_at keys included), changes the id or the
\* created_at of a stored task or the number of stored tasks.
C11_IdAndCreatedAtImmutable ==
    [][ (resp' # resp /\ resp'.op \in {"update", "complete"})
          => /\ {<<r.id, r.created_at>> : r \in tasks'}
                  = {<<r.id, r.created_at>> : r \in tasks}
             /\ Cardinality(tasks') = Cardinality(tasks) ]_vars

\* C11 witness: an update whose body carried other values under the keys id
\* and created_at went through, and the task still has its id and created_at.
C11_Witness ==
    /\ resp.op = "update"
    /\ resp.crud = "ok"
    /\ resp.code = HTTP_200_OK
    /\ {"id", "created_at", "status"} \subseteq DOMAIN resp.args
    /\ \E r \in tasks :
         /\ r.id = resp.id
         /\ r.status = "in_progress"
         /\ resp.args.id # Some(r.id)
         /\ resp.args.created_at # Some(r.created_at)

\* C12: in every reachable state every stored task's priority is one of low,
\* medium, high, urgent and its status one of todo, in_progress, completed,
\* cancelled, also after an update that sends null for priority or status.
C12_EnumFieldsHoldMembers ==
    /\ \A r \in tasks : r.priority \in {"low", "medium", "high", "urgent"}
    /\ \A r \in tasks :
         r.status \in {"todo", "in_progress", "completed", "cancelled"}
    /\ (resp.op = "update" /\ resp.args \in {[priority |-> None], [status |-> None]})
         => resp.crud \in {"none", "raised"}

\* C12 witness: an update that sent null for priority on a stored task was
\* refused by the store, and the task still has a priority.
C12_Witness ==
    /\ resp.op = "update"
    /\ resp.args = [priority |-> None]
    /\ resp.crud = "raised"
    /\ \E r \in tasks : r.id = resp.id /\ r.priority = "medium"

\* A payload that section 4.1 rejects: a title that is blank or whose length
\* is outside [3,200], a description longer than 1000 characters, a priority or
\* status that is not a declared member
PayloadInvalid(raw) ==
    \/ /\ "title" \in DOMAIN raw
       /\ raw.title # None
       /\ \/ IsBlank(raw.title[1])
          \/ StrLen(raw.title[1]) < TitleMinLength
          \/ StrLen(raw.title[1]) > TitleMaxLength
    \/ /\ "description" \in DOMAIN raw
       /\ raw.description # None
       /\ StrLen(raw.description[1]) > DescriptionMaxLength
    \/ /\ "priority" \in DOMAIN raw
       /\ raw.priority # None
       /\ raw.priority[1] \notin {"low", "medium", "high", "urgent"}
    \/ /\ "status" \in DOMAIN raw
       /\ raw.status # None
       /\ raw.status[1] \notin {"todo", "in_progress", "completed", "cancelled"}

\* C13: a create or update whose payload has a blank or wrongly sized title,
\* too long a description or an undeclared priority or status is answered 422
\* before any data-access call, and the store is unchanged, for an update
\* whether or not the id exists.
C13_InvalidPayloadRejected ==
    [][ (resp' # resp /\ resp'.op \in {"create", "update"}
            /\ PayloadInvalid(resp'.args))
          => /\ resp'.code = HTTP_422_UNPROCESSABLE
             /\ resp'.crud = "skipped"
             /\ tasks' = tasks ]_vars

\* C14: get, update (with a payload the validation accepts) and mark_completed
\* on an id that no stored task has answer 404 with the absence value of the
\* data-access layer, raise nothing, and leave every stored task as it was.
C14_NotFoundIsNormal ==
    [][ (/\ resp' # resp
         /\ resp'.op \in {"get", "update", "complete"}
         /\ resp'.id \notin Ids(tasks)
         /\ resp'.op = "update" => TaskUpdate_ok(resp'.args))
          => /\ resp'.code = HTTP_404_NOT_FOUND
             /\ resp'.crud = "none"
             /\ resp'.rows = <<>>
             /\ tasks' = tasks ]_vars

\* C14 witness: an update of an id that no stored task has was answered 404
\* while another task is stored.
C14_Witness ==
    /\ resp.op = "update"
    /\ resp.code = HTTP_404_NOT_FOUND
    /\ resp.crud = "none"
    /\ tasks # {}
    /\ resp.id \notin Ids(tasks)

\* C15: every 404 response carries a JSON body with a `detail` field that
\* holds the not-found message.
C15_NotFoundBodyHasDetail ==
    resp.code = HTTP_404_NOT_FOUND =>
        /\ Len(resp.body) = 1
        /\ "detail" \in DOMAIN resp.body[1]
        /\ resp.body[1].detail = <<"Tache avec l'ID", resp.id, "non trouvee">>

\* C16: mark_completed(id) and update(id, {status: completed}) have the same
\* outcome from every store state and for every id: not-found and an unchanged
\* store for an absent id, otherwise the stored task with status completed and
\* a refreshed updated_at, every other field as before, returned to the
\* caller; on a task that is already completed only updated_at changes.
C16_MarkCompletedIsUpdate ==
    [][ (/\ resp' # resp
         /\ \/ resp'.op = "complete"
            \/ resp'.op = "update" /\ resp'.args = [status |-> Some("completed")])
          => IF resp'.id \notin Ids(tasks)
             THEN /\ resp'.code = HTTP_404_NOT_FOUND
                  /\ resp'.crud = "none"
                  /\ resp'.rows = <<>>
                  /\ tasks' = tasks
             ELSE \E old \in RowsWithId(tasks, resp'.id) :
                    LET new == [old EXCEPT !.status = "completed",
                                           !.updated_at = app_now]
                    IN  /\ tasks' = (tasks \ {old}) \cup {new}
                        /\ resp'.crud = "ok"
                        /\ resp'.rows = <<new>>
                        /\ resp'.code = HTTP_200_OK
                        /\ resp'.body = <<new>>
                        /\ old.status = "completed"
                             => \A f \in Fields :
                                  StoredField(new, f) = StoredField(old, f) ]_vars

\* C16 witness: mark_completed went through on a task whose title an earlier
\* update had changed; the task is completed and keeps that title.
C16_Witness ==
    /\ resp.op = "complete"
    /\ resp.code = HTTP_200_OK
    /\ \E r \in tasks :
         /\ r.id = resp.id
         /\ r.status = "completed"
         /\ r.title = T_abcd
         /\ r.priority = "high"
         /\ resp.rows = <<r>>

\* The texts of the internal exceptions the requests can run into
InternalExceptions ==
    { "IntegrityError: NOT NULL constraint failed: tasks.title",
      "IntegrityError: NOT NULL constraint failed: tasks.priority",
      "IntegrityError: NOT NULL constraint failed: tasks.status",
      "ValidationError: 1 validation error for TaskList",
      "ResponseValidationError: 1 validation errors" }

\* C17: a failure inside a request is answered 500 with a JSON envelope whose
\* content is a generic message: no field of the body holds the text of the
\* internal exception, so two different exceptions give the same body.
C17_GenericErrorEnvelope ==
    resp.code = HTTP_500_INTERNAL_SERVER_ERROR =>
        /\ Len(resp.body) = 1
        /\ "error" \in DOMAIN resp.body[1]
        /\ \A k \in DOMAIN resp.body[1] : resp.body[1][k] \notin InternalExceptions
        /\ \A e1, e2 \in InternalExceptions :
             general_exception_handler(e1) = general_exception_handler(e2)

\* C18: when config.json is absent the service still starts and serves
\* requests against the default local store sqlite:///./tasks.db.
C18_StartsWithoutConfig ==
    (~service.config_json /\ service.state # "stopped")
        => /\ service.state = "serving"
           /\ service.database_url = "sqlite:///./tasks.db"

\* C19: GET /stats/summary answers total_tasks equal to the number of stored
\* tasks, each by_status and by_priority entry equal to the number of stored
\* tasks with that value, so that each group sums to total_tasks, and
\* overdue_tasks equal to the number of overdue tasks.
C19_StatsSummary ==
    resp.op = "stats" =>
        /\ resp.code = HTTP_200_OK
        /\ Len(resp.body) = 1
        /\ LET b == resp.body[1] IN
           /\ b.total_tasks = Cardinality(tasks)
           /\ \A st \in {"todo", "in_progress", "completed", "cancelled"} :
                b.by_status[st] = Cardinality({r \in tasks : r.status = st})
           /\ \A pr \in {"low", "medium", "high", "urgent"} :
                b.by_priority[pr] = Cardinality({r \in tasks : r.priority = pr})
           /\ b.by_status["todo"] + b.by_status["in_progress"]
                + b.by_status["completed"] + b.by_status["cancelled"]
                = b.total_tasks
           /\ b.by_priority["low"] + b.by_priority["medium"]
                + b.by_priority["high"] + b.by_priority["urgent"]
                = b.total_tasks
           /\ b.overdue_tasks = Cardinality(Overdue(tasks, resp.args.now))

\* C19 witness: a summary of two stored tasks, one of them overdue, the other
\* with another priority.
C19_Witness ==
    /\ resp.op = "stats"
    /\ resp.body[1].total_tasks = 2
    /\ resp.body[1].overdue_tasks = 1
    /\ resp.body[1].by_priority["urgent"] = 1
    /\ resp.body[1].by_status["todo"] = 2

\* C20: GET /tasks/status/{status} and GET /tasks/priority/{priority} without
\* explicit skip and limit return all the stored tasks that have the given
\* status (priority) and only those.
C20_AllTasksOfStatusOrPriority ==
    resp.op \in {"by_status", "by_priority"} =>
        /\ resp.crud = "ok"
        /\ Range(resp.rows) = Matching(tasks, resp.args.status, resp.args.priority)
        /\ NoDuplicates(resp.rows)

C22_SessionReleasedOnce ==
    /\ \A c \in Clients :
         (inflight[c].session = "open") ~> (inflight[c].session = "closed")
    /\ [](\A c \in Clients :
            /\ inflight[c].pc \in {"handler", "commit", "count", "exit"}
                 => (inflight[c].session = "open" /\ inflight[c].closes = 0)
            /\ inflight[c].pc = "done"
                 => (inflight[c].session = "closed" /\ inflight[c].closes = 1))

C22_Witness ==
    /\ inflight["c1"].pc = "done"
    /\ inflight["c1"].session = "closed"
    /\ inflight["c1"].closes = 1
    /\ resp.op = "update"
    /\ resp.crud = "raised"
    /\ resp.code = HTTP_500_INTERNAL_SERVER_ERROR

\* C23: a list response has page = (skip // limit) + 1, that is the page >= 1
\* with (page - 1) * limit <= skip < page * limit, and page_size = limit; its
\* rows are the matches at positions skip + 1 .. skip + limit, the raw skip
\* and not the start of the computed page deciding where the rows begin
C23_PageOfSkipAndLimit ==
    (resp.op = "list" /\ resp.code = HTTP_200_OK) =>
        LET skip == resp.args.skip
            limit == resp.args.limit
            n == Cardinality(Matching(tasks, resp.args.status,
                                      resp.args.priority))
        IN  /\ skip >= 0 /\ limit >= 1 /\ limit <= LimitMax
            /\ resp.page >= 1
            /\ (resp.page - 1) * limit <= skip
            /\ skip < resp.page * limit
            /\ resp.page_size = limit
            /\ Len(resp.rows) = Min(limit, Max(0, n - skip))
            /\ \A l \in get_all_tasks(tasks, 0, LimitMax, resp.args.status,
                                      resp.args.priority) :
                 \A i \in 1..Len(resp.rows) :
                   resp.rows[i].created_at = l[skip + i].created_at

\* C23 witness: skip 1 with limit 2 is on page 1 and returns the second of
\* two matches alone
C23_Witness ==
    /\ resp.op = "list"
    /\ resp.code = HTTP_200_OK
    /\ resp.args.skip = 1
    /\ resp.args.limit = 2
    /\ resp.page = 1
    /\ resp.page_size = 2
    /\ Len(resp.rows) = 1
    /\ Cardinality(Matching(tasks, resp.args.status, resp.args.priority)) = 2

\* C24: the id given to a created task was never given to an earlier task,
\* deleted ones included; in particular the create that follows a successful
\* delete(id) does not return that id again
C24_IdNeverReused ==
    [][(/\ resp.op = "delete"
        /\ resp.code = HTTP_200_OK
        /\ resp' # resp
        /\ resp'.op = "create"
        /\ resp'.crud = "ok")
         => resp'.id # resp.id]_vars

\* C25: a create, update, mark_completed or delete request that is answered
\* with an error status (4xx or 5xx) leaves the store as it was before the
\* request
C25_ErrorLeavesStore ==
    [][(/\ resp' # resp
        /\ resp'.op \in {"create", "update", "complete", "delete"}
        /\ resp'.code >= 400)
         => tasks' = tasks]_vars

\* C26: every task that accepted creates and updates leave in the store
\* satisfies the response schema, so that GET /tasks/{id} of a stored id
\* answers 200 and GET /tasks does not fail
C26_StoredTasksSatisfyResponseSchema ==
    /\ \A r \in tasks : TaskResponse_ok(r)
    /\ (resp.op = "get" /\ resp.id \in Ids(tasks)) => resp.code = HTTP_200_OK
    /\ resp.op = "list" => resp.code = HTTP_200_OK

\* C27: on a store that is not modified in between, the page skip = limit
\* that follows the page skip = 0 of the same filters and limit repeats no
\* task of the first page, and when it is the last page the two together hold
\* every matching task
C27_PagesPartitionMatches ==
    [][(/\ resp.op = "list" /\ resp.code = HTTP_200_OK
        /\ resp' # resp
        /\ resp'.op = "list" /\ resp'.code = HTTP_200_OK
        /\ tasks' = tasks
        /\ resp.args.skip = 0
        /\ resp'.args = [resp.args EXCEPT !.skip = resp.args.limit])
         => /\ NoDuplicates(resp.rows \o resp'.rows)
            /\ Len(resp'.rows) < resp.args.limit
                 => Range(resp.rows \o resp'.rows)
                      = Matching(tasks, resp.args.status, resp.args.priority)
       ]_vars

\* C28: whatever creates and deletes commit while GET /tasks is served, its
\* response fits one state of the store: it holds no more tasks than total,
\* and with skip = 0 and fewer tasks than limit it holds exactly total tasks
C28_ListConsistentWithTotal ==
    \A c \in Clients :
        (/\ inflight[c].op = "list"
         /\ inflight[c].pc = "exit"
         /\ inflight[c].out.code = HTTP_200_OK)
          => LET out == inflight[c].out IN
             /\ Len(out.rows) <= out.total
             /\ (out.args.skip = 0 /\ Len(out.rows) < out.args.limit)
                  => Len(out.rows) = out.total

\* C29: when an update commits on a task on which another request's update of
\* other fields is already committed (its response not yet sent), whenever it read the task (nothing but
\* that other update having changed the task since), the task holds
\* afterwards the values both requests supplied
C29_NoLostUpdate ==
    [][\A c, d \in Clients :
        (/\ c # d
         /\ inflight[c].pc = "commit"
         /\ inflight'[c].pc = "exit"
         /\ inflight'[c].out.code = HTTP_200_OK
         /\ inflight[d].op \in {"update", "complete"}
         /\ inflight[d].pc = "exit"
         /\ inflight[d].out.code = HTTP_200_OK
         /\ inflight[d].id = inflight[c].id
         /\ DOMAIN inflight[c].data \cap DOMAIN inflight[d].data = {}
         /\ \A r \in RowsWithId(tasks, inflight[c].id) :
              /\ \A f \in DOMAIN inflight[d].data :
                   StoredField(r, f) = inflight[d].data[f]
              /\ \A f \in Fields \ DOMAIN inflight[d].data :
                   StoredField(r, f) = StoredField(inflight[c].loaded[1], f))
          => \A r \in RowsWithId(tasks', inflight[c].id) :
               /\ \A f \in DOMAIN inflight[d].data :
                    StoredField(r, f) = inflight[d].data[f]
               /\ \A f \in DOMAIN inflight[c].data :
                    StoredField(r, f) = inflight[c].data[f]
       ]_vars

\* C29 witness: c1 read the task before c2's update of the priority was
\* committed and committed its title after it; the task holds both
C29_Witness ==
    /\ inflight["c1"].pc = "exit" /\ inflight["c2"].pc = "exit"
    /\ inflight["c1"].op = "update" /\ inflight["c2"].op = "update"
    /\ inflight["c1"].id = inflight["c2"].id
    /\ inflight["c1"].out.code = HTTP_200_OK
    /\ inflight["c2"].out.code = HTTP_200_OK
    /\ DOMAIN inflight["c1"].data = {"title"}
    /\ DOMAIN inflight["c2"].data = {"priority"}
    /\ inflight["c1"].loaded[1].priority = "medium"
    /\ inflight["c1"].out.rows[1].priority = "high"
    /\ \E r \in tasks : /\ r.id = inflight["c1"].id
                        /\ r.title = T_abcd
                        /\ r.priority = "high"

\* C30: an update or mark_completed of a task that a delete of the same task
\* interleaves with is answered with the updated task (200) or not-found
\* (404), never a server error
C30_UpdateNeverServerError ==
    \A c \in Clients :
        (/\ inflight[c].op \in {"update", "complete"}
         /\ inflight[c].pc = "exit")
          => inflight[c].out.code \in {HTTP_200_OK, HTTP_404_NOT_FOUND}

====
